---------------------------- MODULE Spec2Model ----------------------------
(***************************************************************************)
(* TermTaskspacePose<KINEMATICS, FB, STATE_DIM, CONTROL_DIM>: the cost     *)
(* term on a task-space pose of ct_rbd, as a state machine.                *)
(*                                                                         *)
(* Numbers.  The source computes in double.  The model computes in exact   *)
(* integers: angles are counted in quarter turns (1 stands for pi/2), a    *)
(* quaternion is kept with the square of the factor it is divided by (q    *)
(* and n2 stand for q / sqrt(n2)), and the Frobenius norm, the one         *)
(* irrational value, is kept in units of 1/Precision, rounded down.        *)
(***************************************************************************)
EXTENDS Integers, Sequences, FiniteSets

\* Most objects alive at once where objects are cloned (SpecClone).
MaxObjs == 2
\* The norm and the cost are kept in units of 1/Precision.
Precision == 10

-----------------------------------------------------------------------------
(* Eigen::Matrix<double,3,3> and Eigen::Matrix<double,3,1>                 *)

Identity == <<<<1, 0, 0>>, <<0, 1, 0>>, <<0, 0, 1>>>>

Zero3 == <<<<0, 0, 0>>, <<0, 0, 0>>, <<0, 0, 0>>>>

MatMul(A, B) ==
    LET c(i, j) == A[i][1] * B[1][j] + A[i][2] * B[2][j] + A[i][3] * B[3][j]
    IN << <<c(1, 1), c(1, 2), c(1, 3)>>,
          <<c(2, 1), c(2, 2), c(2, 3)>>,
          <<c(3, 1), c(3, 2), c(3, 3)>> >>

Transpose(A) ==
    << <<A[1][1], A[2][1], A[3][1]>>,
       <<A[1][2], A[2][2], A[3][2]>>,
       <<A[1][3], A[2][3], A[3][3]>> >>

VecSub(u, v) == <<u[1] - v[1], u[2] - v[2], u[3] - v[3]>>

VecAdd(u, v) == <<u[1] + v[1], u[2] + v[2], u[3] + v[3]>>

MatSub(A, B) == <<VecSub(A[1], B[1]), VecSub(A[2], B[2]), VecSub(A[3], B[3])>>

Dot(u, v) == u[1] * v[1] + u[2] * v[2] + u[3] * v[3]

MatVec(A, v) == <<Dot(A[1], v), Dot(A[2], v), Dot(A[3], v)>>

\* the sum of the squares of the entries: the square of Eigen's norm()
squaredNorm(A) ==
    Dot(A[1], A[1]) + Dot(A[2], A[2]) + Dot(A[3], A[3])

RECURSIVE SqrtBetween(_, _, _)
\* the largest r in lo..hi with r*r <= n, for lo*lo <= n < (hi+1)*(hi+1)
SqrtBetween(n, lo, hi) ==
    IF lo = hi THEN lo
    ELSE LET mid == (lo + hi + 1) \div 2
         IN IF mid * mid <= n THEN SqrtBetween(n, mid, hi)
            ELSE SqrtBetween(n, lo, mid - 1)

\* sqrt(n) in units of 1/Precision, rounded down
SqrtFixed(n) == SqrtBetween(n * Precision * Precision, 0, (n + 1) * Precision)

\* Eigen's norm() of a 3x3 matrix (the Frobenius norm), in units of 1/Precision
norm(A) == SqrtFixed(squaredNorm(A))

-----------------------------------------------------------------------------
(* Eigen::Quaternion<double>: <<w, x, y, z>> with n2, standing for         *)
(* <<w, x, y, z>> / sqrt(n2)                                               *)

Quaternion(w, x, y, z) == [q |-> <<w, x, y, z>>, n2 |-> 1]

QuatSquaredNorm(a) == a.q[1] * a.q[1] + a.q[2] * a.q[2] + a.q[3] * a.q[3] + a.q[4] * a.q[4]

\* Eigen's normalized(): the coefficients divided by their norm (left alone when
\* the norm is 0)
normalized(a) ==
    IF QuatSquaredNorm(a) = 0 THEN a
    ELSE [q |-> a.q, n2 |-> QuatSquaredNorm(a)]

\* the Hamilton product
QuatMul(a, b) ==
    LET aw == a.q[1]  ax == a.q[2]  ay == a.q[3]  az == a.q[4]
        bw == b.q[1]  bx == b.q[2]  by == b.q[3]  bz == b.q[4]
    IN [q |-> << aw * bw - ax * bx - ay * by - az * bz,
                 aw * bx + ax * bw + ay * bz - az * by,
                 aw * by - ax * bz + ay * bw + az * bx,
                 aw * bz + ax * by - ay * bx + az * bw >>,
        n2 |-> a.n2 * b.n2]

\* Eigen's toRotationMatrix(): the formula for a unit quaternion, applied to the
\* coefficients as they are.  Every entry is (n2 * delta - products) / n2.
toRotationMatrix(a) ==
    LET w == a.q[1]  x == a.q[2]  y == a.q[3]  z == a.q[4]
        n == a.n2
        tx == 2 * x  ty == 2 * y  tz == 2 * z
        twx == tx * w  twy == ty * w  twz == tz * w
        txx == tx * x  txy == ty * x  txz == tz * x
        tyy == ty * y  tyz == tz * y  tzz == tz * z
    IN << << (n - (tyy + tzz)) \div n, (txy - twz) \div n, (txz + twy) \div n >>,
          << (txy + twz) \div n, (n - (txx + tzz)) \div n, (tyz - twx) \div n >>,
          << (txz - twy) \div n, (tyz + twx) \div n, (n - (txx + tyy)) \div n >> >>

\* Eigen::AngleAxisd(angle, axis) as a quaternion: cos(angle/2), sin(angle/2)*axis,
\* for angle a quarter turns; axis is 1, 2 or 3 (UnitX, UnitY, UnitZ)
AngleAxisd(angle, axis) ==
    LET a == angle % 4
        c == CASE a = 0 -> 1 [] a = 1 -> 1 [] a = 2 -> 0 [] OTHER -> -1
        s == CASE a = 0 -> 0 [] OTHER -> 1
    IN [q |-> <<c, IF axis = 1 THEN s ELSE 0, IF axis = 2 THEN s ELSE 0,
                IF axis = 3 THEN s ELSE 0>>,
        n2 |-> IF a % 2 = 0 THEN 1 ELSE 2]

\* the quaternion of Euler angles XYZ: AngleAxis(e0, X) * AngleAxis(e1, Y) * AngleAxis(e2, Z)
EulerXyzQuaternion(e) ==
    QuatMul(QuatMul(AngleAxisd(e[1], 1), AngleAxisd(e[2], 2)), AngleAxisd(e[3], 3))

-----------------------------------------------------------------------------
(* The template arguments: FB, KINEMATICS::NJOINTS, STATE_DIM               *)

\* what the static_assert of the quaternion constructor asks of STATE_DIM
StateDimOk(t) ==
    LET fb == IF t.FB THEN 1 ELSE 0
    IN \/ t.STATE_DIM = 2 * (fb * 6 + t.NJOINTS)
       \/ t.STATE_DIM = 2 * (fb * 6 + t.NJOINTS) + 1

FixedBase == [FB |-> FALSE, NJOINTS |-> 1, STATE_DIM |-> 2]

FloatingEuler == [FB |-> TRUE, NJOINTS |-> 2, STATE_DIM |-> 16]

FloatingQuat == [FB |-> TRUE, NJOINTS |-> 2, STATE_DIM |-> 17]

\* a fixed-base term over a state of 5 scalars and one joint
BadFixed == [FB |-> FALSE, NJOINTS |-> 1, STATE_DIM |-> 5]

\* a floating-base term over a state of 12 scalars and two joints
BadFloating == [FB |-> TRUE, NJOINTS |-> 2, STATE_DIM |-> 12]

\* the instantiations whose evaluation is modelled
Instantiations == {FixedBase, FloatingEuler, FloatingQuat}

\* the instantiations a program may name
AllInstantiations == Instantiations \cup {BadFixed, BadFloating}

-----------------------------------------------------------------------------
(* tpl::RBDState and the kinematics                                        *)

Pad(s, n) == s \o [i \in 1..(n - Len(s)) |-> 0]

\* the base pose of a default-constructed RBDState
IdentityPose == [rot |-> Identity, position |-> <<0, 0, 0>>]

\* RBDState::fromStateVectorEulerXyz: the leading 3 entries are the base's Euler
\* angles XYZ, the next 3 its position, the next NJOINTS the joint positions
fromStateVectorEulerXyz(t, x) ==
    [basePose |-> [rot |-> toRotationMatrix(EulerXyzQuaternion(<<x[1], x[2], x[3]>>)),
                   position |-> <<x[4], x[5], x[6]>>],
     jointPositions |-> SubSeq(x, 7, 6 + t.NJOINTS)]

\* RBDState::fromStateVectorQuaternion: the leading 4 entries are the base's
\* orientation quaternion, the next 3 its position, the next NJOINTS the joints
fromStateVectorQuaternion(t, x) ==
    [basePose |-> [rot |-> toRotationMatrix(normalized(Quaternion(x[1], x[2], x[3], x[4]))),
                   position |-> <<x[5], x[6], x[7]>>],
     jointPositions |-> SubSeq(x, 8, 7 + t.NJOINTS)]

\* setStateFromVector<FB>: the two overloads, chosen by FB
setStateFromVector(t, x) ==
    IF t.FB
    THEN fromStateVectorEulerXyz(t, x)
    ELSE [basePose |-> IdentityPose, jointPositions |-> SubSeq(x, 1, t.NJOINTS)]

RECURSIVE JointChain(_, _, _)
\* the rotation of the chain of revolute joints: end effector 0 hangs on joints
\* about Z, every other one on joints about X
JointChain(eeInd, q, j) ==
    IF j > Len(q) THEN Identity
    ELSE MatMul(toRotationMatrix(AngleAxisd(q[j], IF eeInd = 0 THEN 3 ELSE 1)),
                JointChain(eeInd, q, j + 1))

\* KINEMATICS::getEERotInWorld
getEERotInWorld(eeInd, basePose, jointPositions) ==
    MatMul(basePose.rot, JointChain(eeInd, jointPositions, 1))

\* KINEMATICS::getEEPositionInWorld: the end effector sits one unit along the
\* last link's z axis
getEEPositionInWorld(eeInd, basePose, jointPositions) ==
    VecAdd(basePose.position,
           MatVec(getEERotInWorld(eeInd, basePose, jointPositions), <<0, 0, 1>>))

\* the state vectors the callers evaluate at
StateVectors(t) ==
    CASE t = FixedBase -> {<<0, 0>>, <<1, 0>>, <<2, 1>>}
      [] t = FloatingEuler ->
            {Pad(<<>>, 16), Pad(<<1, 0, 0, 0, 0, 0, 0, 0>>, 16),
             Pad(<<0, 0, 1, 0, 1, 0, 1, 0>>, 16)}
      [] t = FloatingQuat ->
            {Pad(<<1, 0, 0, 0, 0, 0, 0, 1, 0>>, 17), Pad(<<1, 1, 0, 0, 0, 0, 1, 0, 1>>, 17),
             Pad(<<0, 0, 0, 1, 0, 1, 0, 1, 1>>, 17)}
      [] OTHER -> {}

-----------------------------------------------------------------------------
(* The term's members                                                      *)

Members == {"eeInd_", "Q_rot_", "Q_pos_", "w_p_ref_", "w_R_ref_"}

\* a positive-semidefinite weight that is not diagonal
Weights == <<<<2, 1, 0>>, <<1, 2, 0>>, <<0, 0, 0>>>>

\* what a member that was never written may hold
Indeterminate ==
    { [eeInd_ |-> 0, Q_pos_ |-> Zero3, Q_rot_ |-> 0, w_p_ref_ |-> <<0, 0, 0>>,
       w_R_ref_ |-> Zero3, kinematics_ |-> 0],
      [eeInd_ |-> 1, Q_pos_ |-> Identity, Q_rot_ |-> 2, w_p_ref_ |-> <<0, 0, 1>>,
       w_R_ref_ |-> <<<<1, 0, 0>>, <<0, 0, 0>>, <<0, 0, 7>>>>, kinematics_ |-> 0] }

\* the arguments of the constructor using a quaternion
QuatArgs ==
    { [eeInd |-> 0, Qpos |-> Identity, Qrot |-> 2, w_pos_des |-> <<0, 0, 1>>,
       w_q_des |-> Quaternion(1, 0, 0, 0)],
      [eeInd |-> 1, Qpos |-> Weights, Qrot |-> 0, w_pos_des |-> <<0, -1, 0>>,
       w_q_des |-> Quaternion(1, 1, 0, 0)] }

\* the arguments of the constructor using Euler angles
EulerArgs ==
    { [eeInd |-> 1, Qpos |-> Identity, Qrot |-> 2, w_pos_des |-> <<0, -1, 0>>,
       eulerXyz |-> <<1, 0, 0>>],
      [eeInd |-> 0, Qpos |-> Weights, Qrot |-> 1, w_pos_des |-> <<0, 0, 1>>,
       eulerXyz |-> <<0, 0, 3>>] }

\* a fresh KINEMATICS(): an instance no object of the heap holds
KINEMATICS(heap) ==
    LET held == {heap[i].kinematics_ : i \in DOMAIN heap}
    IN CHOOSE k \in 1..(Cardinality(held) + 1) : k \notin held

\* the constructor using a quaternion for orientation
TermTaskspacePoseQuat(a, kin) ==
    [eeInd_ |-> a.eeInd, kinematics_ |-> kin, Q_pos_ |-> a.Qpos, Q_rot_ |-> a.Qrot,
     w_p_ref_ |-> a.w_pos_des, w_R_ref_ |-> toRotationMatrix(normalized(a.w_q_des))]

\* the constructor using euler angles for orientation: delegates
TermTaskspacePoseEuler(a, kin) ==
    TermTaskspacePoseQuat([eeInd |-> a.eeInd, Qpos |-> a.Qpos, Qrot |-> a.Qrot,
                           w_pos_des |-> a.w_pos_des,
                           w_q_des |-> EulerXyzQuaternion(a.eulerXyz)], kin)

\* the copy constructor in a variant whose initialiser list leaves Q_rot_ out
TermTaskspacePoseCopyNoQrot(arg, kin) ==
    [eeInd_ |-> arg.eeInd_, kinematics_ |-> kin, Q_pos_ |-> arg.Q_pos_,
     Q_rot_ |-> 0, w_p_ref_ |-> arg.w_p_ref_, w_R_ref_ |-> arg.w_R_ref_]

\* the copy constructor
TermTaskspacePoseCopy(arg, kin) ==
    [eeInd_ |-> arg.eeInd_, kinematics_ |-> kin, Q_pos_ |-> arg.Q_pos_,
     Q_rot_ |-> arg.Q_rot_, w_p_ref_ |-> arg.w_p_ref_, w_R_ref_ |-> arg.w_R_ref_]

-----------------------------------------------------------------------------
(* The configuration file: a section's fields, each <<v>> or, when a read  *)
(* of it fails (the field is absent or malformed), <<>>                    *)

Option(S) == {<<>>} \cup {<<v>> : v \in S}

\* sections holding the four required fields, with every mix of orientation fields
Complete ==
    [eeId : {<<1>>}, Q_rot : {<<1>>}, Q_pos : {<<Identity>>}, x_des : {<<<<0, 0, 1>>>>},
     quat_des : Option({<<1, 0, 0, 0>>, <<1, 1, 0, 0>>}),
     eulerXyz_des : Option({<<1, 0, 0>>, <<0, 0, 1>>})]

\* sections lacking one required field, with both orientation fields or neither
Lacking ==
    { [c EXCEPT ![f] = <<>>] :
        f \in {"eeId", "Q_rot", "Q_pos", "x_des"},
        c \in {d \in Complete :
                 \/ d.quat_des = <<>> /\ d.eulerXyz_des = <<>>
                 \/ d.quat_des = <<<<1, 1, 0, 0>>>> /\ d.eulerXyz_des = <<<<1, 0, 0>>>>} }

\* the sections the callers load
Sections == Complete \cup Lacking

\* the sections loaded where two objects live
FewSections ==
    { c \in Sections :
        /\ c.eeId # <<>> /\ c.Q_rot # <<>> /\ c.x_des # <<>>
        /\ \/ c.quat_des = <<>> /\ c.eulerXyz_des = <<>>
           \/ c.quat_des = <<<<1, 1, 0, 0>>>> /\ c.eulerXyz_des = <<<<1, 0, 0>>>> }

\* ct::optcon::loadScalarCF: the field's value, or an exception
loadScalarCF(cfg, name) == [thrown |-> cfg[name] = <<>>, value |-> cfg[name]]

\* ct::optcon::loadMatrixCF: the field's value, or an exception
loadMatrixCF(cfg, name) == [thrown |-> cfg[name] = <<>>, value |-> cfg[name]]

\* what loadConfigFile prints last, when verbose
ReadBack(verbose) ==
    IF verbose THEN <<"Read eeId", "Read Q_pos", "Read Q_rot", "Read x_des">> ELSE <<>>

\* the try blocks of loadConfigFile, in a variant that tries the euler angles first
loadOrientationEulerFirst(self, cfg, verbose, out) ==
    LET quat == loadMatrixCF(cfg, "quat_des")
        euler == loadMatrixCF(cfg, "eulerXyz_des")
        quat_vec == quat.value[1]
        quat_des == Quaternion(quat_vec[1], quat_vec[2], quat_vec[3], quat_vec[4])
        o1 == out \o <<"trying to load euler angles">>
        o2 == o1 \o <<"trying to load quaternion">>
    IN IF ~euler.thrown
       THEN [status |-> "ok",
             self |-> [self EXCEPT !.w_R_ref_ =
                          toRotationMatrix(EulerXyzQuaternion(euler.value[1]))],
             out |-> o1 \o (IF verbose THEN <<"Read desired Euler Angles Xyz">> ELSE <<>>)
                        \o ReadBack(verbose),
             written |-> {"w_R_ref_"}]
       ELSE IF ~quat.thrown
       THEN [status |-> "ok",
             self |-> [self EXCEPT !.w_R_ref_ = toRotationMatrix(quat_des)],
             out |-> o2 \o (IF verbose THEN <<"Read quat_des">> ELSE <<>>)
                        \o ReadBack(verbose),
             written |-> {"w_R_ref_"}]
       ELSE [status |-> "MissingOrientation", self |-> self, out |-> o2, written |-> {}]

\* the try blocks of loadConfigFile, in a variant that falls back on the identity
\* when neither field can be read
loadOrientationDefault(self, cfg, verbose, out) ==
    LET quat == loadMatrixCF(cfg, "quat_des")
        euler == loadMatrixCF(cfg, "eulerXyz_des")
        quat_vec == quat.value[1]
        quat_des == Quaternion(quat_vec[1], quat_vec[2], quat_vec[3], quat_vec[4])
        o1 == out \o <<"trying to load quaternion">>
        o2 == o1 \o <<"trying to load euler angles">>
    IN IF ~quat.thrown
       THEN [status |-> "ok",
             self |-> [self EXCEPT !.w_R_ref_ = toRotationMatrix(quat_des)],
             out |-> o1 \o (IF verbose THEN <<"Read quat_des">> ELSE <<>>)
                        \o ReadBack(verbose),
             written |-> {"w_R_ref_"}]
       ELSE IF ~euler.thrown
       THEN [status |-> "ok",
             self |-> [self EXCEPT !.w_R_ref_ =
                          toRotationMatrix(EulerXyzQuaternion(euler.value[1]))],
             out |-> o2 \o (IF verbose THEN <<"Read desired Euler Angles Xyz">> ELSE <<>>)
                        \o ReadBack(verbose),
             written |-> {"w_R_ref_"}]
       ELSE [status |-> "ok", self |-> [self EXCEPT !.w_R_ref_ = Identity],
             out |-> o2 \o ReadBack(verbose), written |-> {"w_R_ref_"}]

\* the try blocks of loadConfigFile, in a variant that stores the quaternion's
\* rotation inside the if (verbose) that prints it
loadOrientationVerbose(self, cfg, verbose, out) ==
    LET quat == loadMatrixCF(cfg, "quat_des")
        euler == loadMatrixCF(cfg, "eulerXyz_des")
        quat_vec == quat.value[1]
        quat_des == Quaternion(quat_vec[1], quat_vec[2], quat_vec[3], quat_vec[4])
        o1 == out \o <<"trying to load quaternion">>
        o2 == o1 \o <<"trying to load euler angles">>
    IN IF ~quat.thrown
       THEN [status |-> "ok",
             self |-> IF verbose
                      THEN [self EXCEPT !.w_R_ref_ = toRotationMatrix(quat_des)]
                      ELSE self,
             out |-> o1 \o (IF verbose THEN <<"Read quat_des">> ELSE <<>>)
                        \o ReadBack(verbose),
             written |-> IF verbose THEN {"w_R_ref_"} ELSE {}]
       ELSE IF ~euler.thrown
       THEN [status |-> "ok",
             self |-> [self EXCEPT !.w_R_ref_ =
                          toRotationMatrix(EulerXyzQuaternion(euler.value[1]))],
             out |-> o2 \o (IF verbose THEN <<"Read desired Euler Angles Xyz">> ELSE <<>>)
                        \o ReadBack(verbose),
             written |-> {"w_R_ref_"}]
       ELSE [status |-> "MissingOrientation", self |-> self, out |-> o2, written |-> {}]

\* the try blocks of loadConfigFile (lines 137 to 176): the quaternion, else the
\* euler angles, else the runtime_error
loadOrientation(self, cfg, verbose, out) ==
    LET quat == loadMatrixCF(cfg, "quat_des")
        euler == loadMatrixCF(cfg, "eulerXyz_des")
        quat_vec == quat.value[1]
        quat_des == Quaternion(quat_vec[1], quat_vec[2], quat_vec[3], quat_vec[4])
        o1 == out \o <<"trying to load quaternion">>
        o2 == o1 \o <<"trying to load euler angles">>
    IN IF ~quat.thrown
       THEN [status |-> "ok",
             self |-> [self EXCEPT !.w_R_ref_ = toRotationMatrix(quat_des)],
             out |-> o1 \o (IF verbose THEN <<"Read quat_des">> ELSE <<>>)
                        \o ReadBack(verbose),
             written |-> {"w_R_ref_"}]
       ELSE IF ~euler.thrown
       THEN [status |-> "ok",
             self |-> [self EXCEPT !.w_R_ref_ =
                          toRotationMatrix(EulerXyzQuaternion(euler.value[1]))],
             out |-> o2 \o (IF verbose THEN <<"Read desired Euler Angles Xyz">> ELSE <<>>)
                        \o ReadBack(verbose),
             written |-> {"w_R_ref_"}]
       ELSE [status |-> "MissingOrientation", self |-> self, out |-> o2, written |-> {}]

\* loadConfigFile: the object it leaves, what it printed, the members it wrote and
\* how it ended ("ok", "ReadError": a required field's read threw,
\* "MissingOrientation": the runtime_error of line 165)
loadConfigFile(self, cfg, verbose) ==
    LET eeId == loadScalarCF(cfg, "eeId")
        Qrot == loadScalarCF(cfg, "Q_rot")
        Qpos == loadMatrixCF(cfg, "Q_pos")
        xdes == loadMatrixCF(cfg, "x_des")
        o0 == IF verbose THEN <<"Loading TermTaskspacePose from file">> ELSE <<>>
        s1 == [self EXCEPT !.eeInd_ = eeId.value[1]]
        s2 == [s1 EXCEPT !.Q_rot_ = Qrot.value[1]]
        s3 == [s2 EXCEPT !.Q_pos_ = Qpos.value[1]]
        s4 == [s3 EXCEPT !.w_p_ref_ = xdes.value[1]]
        four == {"eeInd_", "Q_rot_", "Q_pos_", "w_p_ref_"}
    IN IF eeId.thrown
       THEN [status |-> "ReadError", self |-> self, out |-> o0, written |-> {}]
       ELSE IF Qrot.thrown
       THEN [status |-> "ReadError", self |-> s1, out |-> o0, written |-> {"eeInd_"}]
       ELSE IF Qpos.thrown
       THEN [status |-> "ReadError", self |-> s2, out |-> o0,
             written |-> {"eeInd_", "Q_rot_"}]
       ELSE IF xdes.thrown
       THEN [status |-> "ReadError", self |-> s3, out |-> o0,
             written |-> {"eeInd_", "Q_rot_", "Q_pos_"}]
       ELSE [loadOrientation(s4, cfg, verbose, o0) EXCEPT !.written = @ \cup four]

\* the position term of evalLocal (lines 190 to 197)
positionCost(self, ee_pos) ==
    LET xDiff == VecSub(ee_pos, self.w_p_ref_)
    IN Dot(xDiff, MatVec(self.Q_pos_, xDiff))

\* the rotation term in a variant that does not transpose the reference
rotationCostNoTranspose(self, ee_rot) ==
    LET ee_rot_diff == MatMul(self.w_R_ref_, ee_rot)
    IN self.Q_rot_ * norm(MatSub(ee_rot_diff, Identity))

\* the rotation term of evalLocal (lines 200 to 209), in units of 1/Precision
rotationCost(self, ee_rot) ==
    LET ee_rot_diff == MatMul(Transpose(self.w_R_ref_), ee_rot)
    IN self.Q_rot_ * norm(MatSub(ee_rot_diff, Identity))

\* evalLocal in a variant that keeps the position it computed as the reference
evalLocalKeeps(t, self, x) ==
    LET rbdState == setStateFromVector(t, x)
        ee_pos == getEEPositionInWorld(self.eeInd_, rbdState.basePose,
                                       rbdState.jointPositions)
        ee_rot == getEERotInWorld(self.eeInd_, rbdState.basePose, rbdState.jointPositions)
        pos_cost == Precision * positionCost(self, ee_pos)
        rot_cost == rotationCost(self, ee_rot)
    IN [cost |-> pos_cost + rot_cost, pos_cost |-> pos_cost, rot_cost |-> rot_cost,
        rbdState |-> rbdState, ee_pos |-> ee_pos, ee_rot |-> ee_rot,
        self |-> [self EXCEPT !.w_p_ref_ = ee_pos]]

\* evalLocal: the cost it returns (and its two terms, in units of 1/Precision),
\* what it computed on the way, and the object it leaves
evalLocal(t, self, x) ==
    LET rbdState == setStateFromVector(t, x)
        ee_pos == getEEPositionInWorld(self.eeInd_, rbdState.basePose,
                                       rbdState.jointPositions)
        ee_rot == getEERotInWorld(self.eeInd_, rbdState.basePose, rbdState.jointPositions)
        pos_cost == Precision * positionCost(self, ee_pos)
        rot_cost == rotationCost(self, ee_rot)
    IN [cost |-> pos_cost + rot_cost, pos_cost |-> pos_cost, rot_cost |-> rot_cost,
        rbdState |-> rbdState, ee_pos |-> ee_pos, ee_rot |-> ee_rot, self |-> self]

-----------------------------------------------------------------------------
(* The program: one instantiation of the template, the objects built so    *)
(* far, and the call that ended last                                       *)

VARIABLES
    tparams,  \* the template arguments FB, NJOINTS, STATE_DIM
    objs,     \* the TermTaskspacePose objects, in the order they were built
    prov,     \* history: per object and member, the kind of call that wrote it last
    call      \* the call that ended last: its arguments and what the caller saw

vars == <<tparams, objs, prov, call>>

NoSection ==
    [eeId |-> <<>>, Q_rot |-> <<>>, Q_pos |-> <<>>, x_des |-> <<>>, quat_des |-> <<>>,
     eulerXyz_des |-> <<>>]

NoResult ==
    [cost |-> 0, pos_cost |-> 0, rot_cost |-> 0,
     rbdState |-> [basePose |-> IdentityPose, jointPositions |-> <<>>],
     ee_pos |-> <<0, 0, 0>>, ee_rot |-> Identity]

Call(op, self) ==
    [op |-> op, self |-> self, src |-> 0, cfg |-> NoSection, verbose |-> FALSE, x |-> <<>>,
     status |-> "ok", out |-> <<>>, ret |-> NoResult]

Returned(r) ==
    [cost |-> r.cost, pos_cost |-> r.pos_cost, rot_cost |-> r.rot_cost,
     rbdState |-> r.rbdState, ee_pos |-> r.ee_pos, ee_rot |-> r.ee_rot]

\* the history of the members after a loadConfigFile that wrote `written`
Written(old, r) ==
    [m \in Members |->
        IF m \in r.written
        THEN (IF r.status = "ok" THEN "load" ELSE "failed load")
        ELSE old[m]]

Init ==
    /\ tparams \in Instantiations
    /\ objs = <<>>
    /\ prov = <<>>
    /\ call = Call("none", 0)

\* TermTaskspacePose() {}: no member is initialised
DefaultConstruct(room) ==
    /\ room
    /\ \E g \in Indeterminate :
          objs' = Append(objs, [g EXCEPT !.kinematics_ = KINEMATICS(objs)])
    /\ prov' = Append(prov, [m \in Members |-> "unset"])
    /\ call' = Call("TermTaskspacePose()", Len(objs) + 1)
    /\ UNCHANGED tparams

\* TermTaskspacePose(eeInd, Qpos, Qrot, w_pos_des, w_q_des): compiles only where
\* its static_assert holds
ConstructQuat(room) ==
    /\ room
    /\ StateDimOk(tparams)
    /\ \E a \in QuatArgs :
          objs' = Append(objs, TermTaskspacePoseQuat(a, KINEMATICS(objs)))
    /\ prov' = Append(prov, [m \in Members |-> "quaternion constructor"])
    /\ call' = Call("TermTaskspacePose(quaternion)", Len(objs) + 1)
    /\ UNCHANGED tparams

\* TermTaskspacePose(eeInd, Qpos, Qrot, w_pos_des, eulerXyz): delegates to the
\* quaternion constructor, static_assert included
ConstructEuler(room) ==
    /\ room
    /\ StateDimOk(tparams)
    /\ \E a \in EulerArgs :
          objs' = Append(objs, TermTaskspacePoseEuler(a, KINEMATICS(objs)))
    /\ prov' = Append(prov, [m \in Members |-> "euler constructor"])
    /\ call' = Call("TermTaskspacePose(eulerXyz)", Len(objs) + 1)
    /\ UNCHANGED tparams

\* TermTaskspacePose(configFile, termName, verbose): the members start
\* uninitialised and loadConfigFile runs; when it throws, no object is built
ConstructConfig(room, sections) ==
    /\ room
    /\ \E cfg \in sections, verbose \in BOOLEAN, g \in Indeterminate :
          \E r \in {loadConfigFile([g EXCEPT !.kinematics_ = KINEMATICS(objs)], cfg, verbose)} :
          LET built == r.status = "ok"
          IN /\ objs' = IF built THEN Append(objs, r.self) ELSE objs
             /\ prov' = IF built
                        THEN Append(prov, Written([m \in Members |-> "unset"], r))
                        ELSE prov
             /\ call' = [Call("TermTaskspacePose(configFile)",
                              IF built THEN Len(objs) + 1 ELSE 0)
                           EXCEPT !.cfg = cfg, !.verbose = verbose, !.status = r.status,
                                  !.out = r.out]
    /\ UNCHANGED tparams

\* clone(): new TermTaskspacePose(*this)
Clone(room) ==
    /\ room
    /\ \E i \in DOMAIN objs :
          /\ objs' = Append(objs, TermTaskspacePoseCopy(objs[i], KINEMATICS(objs)))
          /\ prov' = Append(prov, prov[i])
          /\ call' = [Call("clone", Len(objs) + 1) EXCEPT !.src = i]
    /\ UNCHANGED tparams

\* evaluate(x, u, t)
Evaluate ==
    /\ \E i \in DOMAIN objs, x \in StateVectors(tparams) :
          \E r \in {evalLocal(tparams, objs[i], x)} :
             /\ objs' = [objs EXCEPT ![i] = r.self]
             /\ call' = [Call("evaluate", i) EXCEPT !.x = x, !.ret = Returned(r)]
    /\ UNCHANGED <<tparams, prov>>

\* evaluateCppadCg(x, u, t)
EvaluateCppadCg ==
    /\ \E i \in DOMAIN objs, x \in StateVectors(tparams) :
          \E r \in {evalLocal(tparams, objs[i], x)} :
             /\ objs' = [objs EXCEPT ![i] = r.self]
             /\ call' = [Call("evaluateCppadCg", i) EXCEPT !.x = x, !.ret = Returned(r)]
    /\ UNCHANGED <<tparams, prov>>

\* loadConfigFile(filename, termName, verbose) on an object that exists: what it
\* wrote before it threw stays written
LoadConfigFile(sections) ==
    /\ \E i \in DOMAIN objs, cfg \in sections, verbose \in BOOLEAN :
          \E r \in {loadConfigFile(objs[i], cfg, verbose)} :
             /\ objs' = [objs EXCEPT ![i] = r.self]
             /\ prov' = [prov EXCEPT ![i] = Written(@, r)]
             /\ call' = [Call("loadConfigFile", i)
                           EXCEPT !.cfg = cfg, !.verbose = verbose, !.status = r.status,
                                  !.out = r.out]
    /\ UNCHANGED tparams

\* One object: built by any constructor, then loaded and evaluated at will
Next ==
    \/ DefaultConstruct(objs = <<>>)
    \/ ConstructQuat(objs = <<>>)
    \/ ConstructEuler(objs = <<>>)
    \/ ConstructConfig(objs = <<>>, Sections)
    \/ Evaluate
    \/ EvaluateCppadCg
    \/ LoadConfigFile(Sections)

Spec == Init /\ [][Next]_vars

\* Every instantiation a program may name, and the calls that build and load
InitDim ==
    /\ tparams \in AllInstantiations
    /\ objs = <<>>
    /\ prov = <<>>
    /\ call = Call("none", 0)

NextDim ==
    \/ DefaultConstruct(objs = <<>>)
    \/ ConstructQuat(objs = <<>>)
    \/ ConstructEuler(objs = <<>>)
    \/ ConstructConfig(objs = <<>>, Sections)
    \/ LoadConfigFile(Sections)

SpecDim == InitDim /\ [][NextDim]_vars

\* Up to MaxObjs objects of the fixed-base instantiation, built, cloned, loaded
\* and evaluated in any order
InitClone ==
    /\ tparams = FixedBase
    /\ objs = <<>>
    /\ prov = <<>>
    /\ call = Call("none", 0)

NextClone ==
    \/ ConstructQuat(Len(objs) < MaxObjs)
    \/ ConstructConfig(Len(objs) < MaxObjs, FewSections)
    \/ Clone(Len(objs) < MaxObjs)
    \/ Evaluate
    \/ EvaluateCppadCg
    \/ LoadConfigFile(FewSections)

SpecClone == InitClone /\ [][NextClone]_vars

(* The claims                                                              *)

EvalOps == {"evaluate", "evaluateCppadCg"}

LoadOps == {"loadConfigFile", "TermTaskspacePose(configFile)"}

Required == {"eeId", "Q_rot", "Q_pos", "x_des"}

Readable(cfg, f) == cfg[f] # <<>>

AllRequired(cfg) == \A f \in Required : Readable(cfg, f)

\* the five parameters of an object
Params(o) == <<o.eeInd_, o.Q_pos_, o.Q_rot_, o.w_p_ref_, o.w_R_ref_>>

\* the rotation matrix Eigen builds from the values of a quat_des field as they are
FieldRotation(v) == toRotationMatrix(Quaternion(v[1], v[2], v[3], v[4]))

\* both orientation fields of the last call's section can be read
BothOrientations ==
    /\ call.op \in LoadOps
    /\ AllRequired(call.cfg)
    /\ Readable(call.cfg, "quat_des")
    /\ Readable(call.cfg, "eulerXyz_des")

\* C1: a load from a section with the four required fields, a quaternion field and
\* an Euler field succeeds, every parameter is the one its own field gives, the
\* reference rotation is the one built from the quaternion field, and the Euler
\* field is not even tried
C1_QuaternionBeforeEuler ==
    BothOrientations =>
        /\ call.status = "ok"
        /\ call.self \in DOMAIN objs
        /\ Params(objs[call.self]) =
              << call.cfg.eeId[1], call.cfg.Q_pos[1], call.cfg.Q_rot[1], call.cfg.x_des[1],
                 FieldRotation(call.cfg.quat_des[1]) >>
        /\ \A k \in DOMAIN call.out : call.out[k] # "trying to load euler angles"

\* C1's case: a loadConfigFile from a section whose two orientation fields name
\* different rotations
C1_Witness ==
    /\ BothOrientations
    /\ call.op = "loadConfigFile"
    /\ FieldRotation(call.cfg.quat_des[1]) #
          toRotationMatrix(EulerXyzQuaternion(call.cfg.eulerXyz_des[1]))
    /\ objs[call.self].w_R_ref_ = FieldRotation(call.cfg.quat_des[1])

\* C2: a load ends with the MissingOrientation error exactly when the four required
\* fields were read and neither orientation field could be; and then the reference
\* rotation is the one the object had before (no object is built by the
\* constructor): no default takes its place
C2_MissingOrientation ==
    [][ call'.op \in LoadOps =>
          /\ call'.status = "MissingOrientation" <=>
                /\ AllRequired(call'.cfg)
                /\ ~Readable(call'.cfg, "quat_des")
                /\ ~Readable(call'.cfg, "eulerXyz_des")
          /\ call'.status = "MissingOrientation" =>
                IF call'.op = "loadConfigFile"
                THEN objs'[call'.self].w_R_ref_ = objs[call'.self].w_R_ref_
                ELSE objs' = objs ]_vars

\* C2's case: a loadConfigFile that ended with the MissingOrientation error
C2_Witness ==
    /\ call.op = "loadConfigFile"
    /\ call.status = "MissingOrientation"
    /\ AllRequired(call.cfg)

\* the calls that write all five members when they succeed
WholeKinds == {"quaternion constructor", "euler constructor", "load"}

\* the five members of object i were written by one call that succeeded
BuiltWhole(i) == \E k \in WholeKinds : \A m \in Members : prov[i][m] = k

\* C3: every object that exists has its five parameters set by one successful
\* construction or load
C3_AllOrNothing == \A i \in DOMAIN objs : BuiltWhole(i)

\* C4: no object is built by the quaternion, the Euler or the configuration
\* constructor unless STATE_DIM is 2 * (6 * FB + NJOINTS) or that plus one
C4_DimensionChecked ==
    /\ call.op \in {"TermTaskspacePose(quaternion)", "TermTaskspacePose(eulerXyz)",
                    "TermTaskspacePose(configFile)"}
    /\ call.self \in DOMAIN objs
    => StateDimOk(tparams)

\* C5: a clone has its source's five parameters and a kinematics no other object
\* holds, and returns its source's cost at every state; and no call changes an
\* object other than the one it is made on
C5_CloneIndependent ==
    [][ /\ call'.op = "clone" =>
              /\ Params(objs'[call'.self]) = Params(objs[call'.src])
              /\ \A j \in DOMAIN objs : objs[j].kinematics_ # objs'[call'.self].kinematics_
              /\ \A x \in StateVectors(tparams) :
                    evalLocal(tparams, objs'[call'.self], x).cost =
                       evalLocal(tparams, objs[call'.src], x).cost
        /\ \A j \in DOMAIN objs : j # call'.self => objs'[j] = objs[j] ]_vars

\* C5's case: a clone was just made of an object whose rotation weight is not 0
C5_Witness ==
    /\ call.op = "clone"
    /\ objs[call.src].Q_rot_ # 0
    /\ Params(objs[call.self]) = Params(objs[call.src])

\* C6: an evaluation changes no object, and evaluating again at the same state
\* returns the cost it returned
C6_EvaluatePure ==
    [][ call'.op \in EvalOps =>
          /\ objs' = objs
          /\ evalLocal(tparams, objs'[call'.self], call'.x).cost = call'.ret.cost ]_vars

\* C6's case: an evaluation that returned a cost with both terms positive
C6_Witness ==
    /\ call.op \in EvalOps
    /\ call.ret.pos_cost > 0
    /\ call.ret.rot_cost > 0

\* the last call evaluated the object at its reference pose
AtReference ==
    /\ call.op \in EvalOps
    /\ call.ret.ee_pos = objs[call.self].w_p_ref_
    /\ call.ret.ee_rot = objs[call.self].w_R_ref_

\* C7: an evaluation at which the kinematics reports the reference position and
\* the reference rotation returns 0
C7_ZeroAtReference == AtReference => call.ret.cost = 0

\* C7's case: an evaluation at the reference pose of an object whose reference was
\* loaded from a configuration, with weights that are not 0
C7_Witness ==
    /\ AtReference
    /\ prov[call.self]["w_R_ref_"] = "load"
    /\ objs[call.self].Q_rot_ > 0
    /\ objs[call.self].Q_pos_ # Zero3

\* C8 as amended: the rotation term is never negative for a weight >= 0, and it
\* is 0 exactly when the weight is 0 or the rotation is the reference rotation
C8_RotationCostZero ==
    call.op \in EvalOps /\ objs[call.self].Q_rot_ >= 0 =>
        /\ call.ret.rot_cost >= 0
        /\ call.ret.rot_cost = 0 <=>
              \/ objs[call.self].Q_rot_ = 0
              \/ call.ret.ee_rot = objs[call.self].w_R_ref_

\* C8's case: an evaluation away from the reference rotation under the weight 0
C8_Witness ==
    /\ call.op \in EvalOps
    /\ BuiltWhole(call.self)
    /\ objs[call.self].Q_rot_ = 0
    /\ call.ret.ee_rot # objs[call.self].w_R_ref_
    /\ call.ret.rot_cost = 0

\* C8 as stated, of an object built whole: the rotation term is never negative
\* for a weight >= 0, and it is 0 exactly when the rotation is the reference
\* rotation
C8_AsStated ==
    call.op \in EvalOps /\ BuiltWhole(call.self) /\ objs[call.self].Q_rot_ >= 0 =>
        /\ call.ret.rot_cost >= 0
        /\ call.ret.rot_cost = 0 <=> call.ret.ee_rot = objs[call.self].w_R_ref_

\* C9: a load with the other value of verbose ends the same way and leaves the
\* same five parameters
C9_VerboseNoInfluence ==
    [][ /\ call'.op = "loadConfigFile" =>
              LET r == loadConfigFile(objs[call'.self], call'.cfg, ~call'.verbose)
              IN /\ r.status = call'.status
                 /\ r.self = objs'[call'.self]
        /\ call'.op = "TermTaskspacePose(configFile)" =>
              \A g \in Indeterminate :
                 LET r == loadConfigFile(g, call'.cfg, ~call'.verbose)
                 IN /\ r.status = call'.status
                    /\ r.status = "ok" => Params(r.self) = Params(objs'[call'.self]) ]_vars

\* C9's case: a verbose loadConfigFile that read a quaternion and printed it
C9_Witness ==
    /\ call.op = "loadConfigFile"
    /\ call.verbose
    /\ call.status = "ok"
    /\ \E k \in DOMAIN call.out : call.out[k] = "Read quat_des"

\* C10: a floating-base evaluation (of an object built whole) decodes the state
\* as an Euler-XYZ pose and the joints after it when STATE_DIM is
\* 2 * (6 + NJOINTS), and as a quaternion pose and the joints after it when
\* STATE_DIM is 2 * (6 + NJOINTS) + 1
C10_DecodeByLength ==
    call.op \in EvalOps /\ BuiltWhole(call.self) /\ tparams.FB =>
        /\ tparams.STATE_DIM = 2 * (6 + tparams.NJOINTS) =>
              call.ret.rbdState = fromStateVectorEulerXyz(tparams, call.x)
        /\ tparams.STATE_DIM = 2 * (6 + tparams.NJOINTS) + 1 =>
              call.ret.rbdState = fromStateVectorQuaternion(tparams, call.x)

=============================================================================
